---- MODULE Spec2Model ----
(***************************************************************************)
(* wasp-lib: typed pointer wrappers (BasePointer and its five subclasses)  *)
(* over the linear memory of an Emscripten module, and the TypeConverter   *)
(* byte conversions they use.  The heap is modelled byte by byte; the      *)
(* Emscripten runtime methods (setValue, getValue, stringToUTF8,           *)
(* UTF8ToString, _malloc, _free) are modelled by what they do to bytes.    *)
(***************************************************************************)
EXTENDS Integers, Sequences, FiniteSets, TLC

VARIABLES
    handles,   \* handle slot -> pointer object (cls, _ptr, type, length) or none
    heap,      \* linear memory: address -> byte 0..255
    live,      \* allocator: block base -> bytes requested by _malloc, or Free
    last,      \* the last call: operation, handle, arguments, outcome, heap accesses
    badFree,   \* _free was called on an address that is not a live block
    frees,     \* handle slot -> number of _free calls made through its object
    shape      \* class, type and length of the objects this behaviour creates

vars == <<handles, heap, live, last, badFree, frees, shape>>

----------------------------------------------------------------------------
\* Bounds of the model

MaxLen == 2          \* largest declared ArrayPointer length
MaxCap == 3          \* largest StringPointer length passed to alloc
MaxCode == 300       \* largest character code and number given to TypeConverter

Handles == {1, 2}    \* handle slots; each holds at most one pointer object

----------------------------------------------------------------------------
\* types.ts

C_TRUE == 1
C_FALSE == 0

NumberTypes == {"i8", "i16", "i32", "i64", "float", "double"}

C_TYPE_SIZES(type) ==
    CASE type = "i8" -> 1
      [] type = "i16" -> 2
      [] type = "i32" -> 4
      [] type = "i64" -> 8
      [] type = "float" -> 4
      [] type = "double" -> 8

\* identifiers that are no key of C_TYPE_SIZES, given as a type all the same
UnknownTypes == {"u8", "int", "toString"}

\* n * C_TYPE_SIZES[type] as the i32 argument _malloc receives: for a type that
\* is no key the product is NaN, which the call converts to 0
MallocBytes(type, n) == IF type \in NumberTypes THEN n * C_TYPE_SIZES(type) ELSE 0

----------------------------------------------------------------------------
\* Byte sequences

Pow2(n) == 2 ^ n

\* s without its trailing zeros
StripZeros(s) ==
    LET nz == {i \in 1..Len(s) : s[i] # 0}
    IN  IF nz = {} THEN <<>>
        ELSE SubSeq(s, 1, CHOOSE i \in nz : \A j \in nz : j <= i)

PadZeros(s, n) == [i \in 1..n |-> IF i <= Len(s) THEN s[i] ELSE 0]

----------------------------------------------------------------------------
\* JavaScript values, as the typed heap views store and load them.
\*   number given to an integer type : an Int
\*   bigint (i64)                    : sign and magnitude in base 256
\*   number given to float / double  : sign, exponent and significand bits

\* HEAP8 / HEAP16 / HEAP32 store: the low n bytes of v in two's complement
IntToBytes(v, n) == [i \in 1..n |-> (v \div (256 ^ (i - 1))) % 256]

\* HEAP8 / HEAP16 / HEAP32 load: the bytes read as a signed integer
IntFromBytes(bytes) ==
    LET n == Len(bytes)
        RECURSIVE Sum(_)
        Sum(i) == IF i = 0 THEN 0
                  ELSE (IF i = n /\ bytes[i] >= 128 THEN bytes[i] - 256 ELSE bytes[i])
                       * (256 ^ (i - 1)) + Sum(i - 1)
    IN  Sum(n)

BigInt(neg, mag) == [neg |-> neg, mag |-> mag]

\* the bigint of a small integer
RECURSIVE Base256(_)
Base256(n) == IF n = 0 THEN <<>> ELSE <<n % 256>> \o Base256(n \div 256)

BigOfInt(v) == IF v < 0 THEN BigInt(TRUE, Base256(-v)) ELSE BigInt(FALSE, Base256(v))

RECURSIVE AddDigits(_, _, _)
AddDigits(x, y, carry) ==
    IF x = <<>> /\ y = <<>> THEN (IF carry = 0 THEN <<>> ELSE <<carry>>)
    ELSE LET a == IF x = <<>> THEN 0 ELSE Head(x)
             b == IF y = <<>> THEN 0 ELSE Head(y)
             xs == IF x = <<>> THEN <<>> ELSE Tail(x)
             ys == IF y = <<>> THEN <<>> ELSE Tail(y)
         IN  <<(a + b + carry) % 256>> \o AddDigits(xs, ys, (a + b + carry) \div 256)

\* two's complement negation of a fixed-width little-endian byte string
Negate(bytes) ==
    SubSeq(AddDigits([i \in 1..Len(bytes) |-> 255 - bytes[i]], <<1>>, 0), 1, Len(bytes))

\* HEAP64 store (BigInt64Array): the value modulo 2^64 in two's complement
BigToBytes(b) ==
    LET m == PadZeros(b.mag, 8)
    IN  IF b.neg THEN Negate(m) ELSE m

\* HEAP64 load
BigFromBytes(bytes) ==
    IF bytes[8] >= 128 THEN BigInt(TRUE, StripZeros(Negate(bytes)))
    ELSE BigInt(FALSE, StripZeros(bytes))

\* A float or double value, held as the double it is in JavaScript: zero, or
\* (-1)^neg * 1.f * 2^exp, frac being the 52 bits of f as the double stores
\* them: the top 4 bits, then six bytes.  "sub" and "naninf" name the bit
\* patterns that are no normal number; they keep their fraction bits.
FloatVal(k, neg, exp, frac) == [k |-> k, neg |-> neg, exp |-> exp, frac |-> frac]

NoFrac == <<0, 0, 0, 0, 0, 0, 0>>

\* what an exponent field of all zeros or all ones stands for
FloatKind(biased, top, frac) ==
    IF biased = 0 THEN (IF frac = NoFrac THEN "zero" ELSE "sub")
    ELSE IF biased = top THEN "naninf" ELSE "norm"

\* HEAPF64 store: the double itself, least significant byte first
DoubleToBytes(v) ==
    LET sign == IF v.neg THEN 128 ELSE 0
        biased == IF v.k = "zero" THEN 0 ELSE v.exp + 1023
    IN  <<v.frac[7], v.frac[6], v.frac[5], v.frac[4], v.frac[3], v.frac[2],
          (biased % 16) * 16 + v.frac[1], sign + (biased \div 16)>>

\* HEAPF64 load
DoubleFromBytes(bytes) ==
    LET biased == (bytes[8] % 128) * 16 + (bytes[7] \div 16)
        fraction == <<bytes[7] % 16, bytes[6], bytes[5], bytes[4], bytes[3], bytes[2], bytes[1]>>
        kind == FloatKind(biased, 2047, fraction)
    IN  FloatVal(kind, bytes[8] >= 128, IF kind = "norm" THEN biased - 1023 ELSE 0, fraction)

\* the 4 bytes of sign, exponent field and 23 fraction bits
PackFloat(sign, biased, f23) ==
    <<f23 % 256, (f23 \div 256) % 256, (biased % 2) * 128 + (f23 \div 65536),
      sign + (biased \div 2)>>

\* the 24-bit significand q of a float whose exponent is exp (q = 2^24 when
\* rounding carried into the next power of two), or infinity past the range
PackRounded(sign, exp, q) ==
    LET e == IF q = Pow2(24) THEN exp + 1 ELSE exp
        f23 == IF q = Pow2(24) THEN 0 ELSE q - Pow2(23)
    IN  IF e + 127 >= 255 THEN PackFloat(sign, 255, 0) ELSE PackFloat(sign, e + 127, f23)

\* HEAPF32 store: the double rounded to 24 significant bits, to nearest, ties
\* to even (zero, and the numbers whose rounded exponent is that of a normal float)
FloatToBytes(v) ==
    LET sign == IF v.neg THEN 128 ELSE 0
        q == Pow2(23) + v.frac[1] * Pow2(19) + v.frac[2] * Pow2(11) + v.frac[3] * 8
             + (v.frac[4] \div 32)
        half == (v.frac[4] \div 16) % 2 = 1
        sticky == v.frac[4] % 16 # 0 \/ v.frac[5] # 0 \/ v.frac[6] # 0 \/ v.frac[7] # 0
    IN  CASE v.k = "zero" -> PackFloat(sign, 0, 0)
          [] v.k = "norm" /\ v.exp >= -126 ->
                PackRounded(sign, v.exp, IF half /\ (sticky \/ q % 2 = 1) THEN q + 1 ELSE q)

\* HEAPF32 load
FloatFromBytes(bytes) ==
    LET biased == (bytes[4] % 128) * 2 + (bytes[3] \div 128)
        f23 == (bytes[3] % 128) * 65536 + bytes[2] * 256 + bytes[1]
        fraction == <<f23 \div Pow2(19), (f23 \div Pow2(11)) % 256, (f23 \div 8) % 256,
                      (f23 % 8) * 32, 0, 0, 0>>
        kind == FloatKind(biased, 255, fraction)
    IN  FloatVal(kind, bytes[4] >= 128, IF kind = "norm" THEN biased - 127 ELSE 0, fraction)

\* the bytes setValue stores for a value of the type
Encode(type, value) ==
    CASE type \in {"i8", "i16", "i32"} -> IntToBytes(value, C_TYPE_SIZES(type))
      [] type = "i64" -> BigToBytes(value)
      [] type = "float" -> FloatToBytes(value)
      [] type = "double" -> DoubleToBytes(value)

\* the value getValue returns for the bytes of the type
Decode(type, bytes) ==
    CASE type \in {"i8", "i16", "i32"} -> IntFromBytes(bytes)
      [] type = "i64" -> BigFromBytes(bytes)
      [] type = "float" -> FloatFromBytes(bytes)
      [] type = "double" -> DoubleFromBytes(bytes)

----------------------------------------------------------------------------
\* The linear memory and the allocator of the Emscripten module

MallocAlign == 8                      \* _malloc returns addresses aligned to 8
NumBlocks == Cardinality(Handles)     \* a block for every handle slot
BlockBytes == MaxLen * 8              \* room for MaxLen elements of the widest type
Bases == {MallocAlign + i * BlockBytes : i \in 0..(NumBlocks - 1)}
HeapSize == MallocAlign + NumBlocks * BlockBytes
Addrs == 0..(HeapSize - 1)
Free == -1                            \* live[b] of a block that is not allocated

\* the block [b, b + size) is in the heap and no live block is at b
Fits(lv, b, size) == lv[b] = Free /\ size <= BlockBytes

\* _malloc(size): the lowest block that fits, or 0 when the allocation fails
\* (the result of a call is one of these; the caller of Malloc chooses)
MallocResults(lv, size) ==
    LET fit == {b \in Bases : Fits(lv, b, size)}
    IN  {0} \cup {b \in fit : \A c \in fit : b <= c}

AfterMalloc(lv, addr, size) == IF addr = 0 THEN lv ELSE [lv EXCEPT ![addr] = size]

\* _free(addr) of a live block returns it to the allocator; of anything else it
\* is undefined behaviour (recorded in badFree)
IsLive(lv, addr) == addr \in Bases /\ lv[addr] # Free
AfterFree(lv, addr) == IF IsLive(lv, addr) THEN [lv EXCEPT ![addr] = Free] ELSE lv

\* the addresses a typed access setValue / getValue (ptr, type) touches:
\* HEAP16[ptr >> 1], HEAP32[ptr >> 2], HEAP64[ptr >> 3], ...
AccessAddrs(ptr, type) ==
    LET n == C_TYPE_SIZES(type)
        b == (ptr \div n) * n
    IN  b..(b + n - 1)

\* the heap with bytes stored from address b on
StoreBytes(hp, b, bytes) ==
    [a \in Addrs |-> IF a \in b..(b + Len(bytes) - 1) THEN bytes[a - b + 1] ELSE hp[a]]

setValue(hp, ptr, value, type) ==
    StoreBytes(hp, (ptr \div C_TYPE_SIZES(type)) * C_TYPE_SIZES(type), Encode(type, value))

getValue(hp, ptr, type) ==
    LET n == C_TYPE_SIZES(type)
        b == (ptr \div n) * n
    IN  Decode(type, [i \in 1..n |-> hp[b + i - 1]])

----------------------------------------------------------------------------
\* Strings are sequences of UTF-16 code units (below the surrogate range)

UTF8Bytes(u) ==
    IF u <= 127 THEN <<u>>
    ELSE IF u <= 2047 THEN <<192 + (u \div 64), 128 + (u % 64)>>
    ELSE <<224 + (u \div 4096), 128 + ((u \div 64) % 64), 128 + (u % 64)>>

\* lengthBytesUTF8(str)
RECURSIVE lengthBytesUTF8(_)
lengthBytesUTF8(str) ==
    IF str = <<>> THEN 0 ELSE Len(UTF8Bytes(Head(str))) + lengthBytesUTF8(Tail(str))

\* the bytes stringToUTF8Array emits before the terminator when room bytes are
\* left for them: it stops at the first character that does not fit
RECURSIVE UTF8Upto(_, _)
UTF8Upto(str, room) ==
    IF str = <<>> \/ Len(UTF8Bytes(Head(str))) > room THEN <<>>
    ELSE UTF8Bytes(Head(str)) \o UTF8Upto(Tail(str), room - Len(UTF8Bytes(Head(str))))

\* stringToUTF8(str, outPtr, maxBytesToWrite): the encoded prefix and a
\* terminating 0, at most maxBytesToWrite bytes; nothing when that is 0
StringBytes(str, maxBytesToWrite) ==
    IF maxBytesToWrite <= 0 THEN <<>>
    ELSE Append(UTF8Upto(str, maxBytesToWrite - 1), 0)

stringToUTF8Addrs(str, outPtr, maxBytesToWrite) ==
    outPtr..(outPtr + Len(StringBytes(str, maxBytesToWrite)) - 1)

stringToUTF8(hp, str, outPtr, maxBytesToWrite) ==
    LET bytes == StringBytes(str, maxBytesToWrite)
    IN  [a \in Addrs |-> IF a \in outPtr..(outPtr + Len(bytes) - 1)
                         THEN bytes[a - outPtr + 1] ELSE hp[a]]

\* a byte of the heap; past the end of memory a load gives undefined, which the
\* decoder treats as 0
ByteAt(hp, a) == IF a \in Addrs THEN hp[a] ELSE 0

\* end of the string at ptr: the address of the first 0 byte (or of the end of memory)
RECURSIVE EndPtr(_, _)
EndPtr(hp, idx) == IF ByteAt(hp, idx) = 0 THEN idx ELSE EndPtr(hp, idx + 1)

\* UTF8ArrayToString: decode [idx, endPtr); a lead byte takes its continuation
\* bytes from the following addresses whatever they hold
RECURSIVE UTF8Decode(_, _, _)
UTF8Decode(hp, idx, endPtr) ==
    IF idx >= endPtr THEN <<>>
    ELSE LET u0 == ByteAt(hp, idx)
             u1 == ByteAt(hp, idx + 1) % 64
             u2 == ByteAt(hp, idx + 2) % 64
             u3 == ByteAt(hp, idx + 3) % 64
             c4 == (u0 % 8) * 262144 + u1 * 4096 + u2 * 64 + u3
         IN  IF u0 < 128 THEN <<u0>> \o UTF8Decode(hp, idx + 1, endPtr)
             ELSE IF u0 \div 32 = 6
                  THEN <<(u0 % 32) * 64 + u1>> \o UTF8Decode(hp, idx + 2, endPtr)
             ELSE IF u0 \div 16 = 14
                  THEN <<(u0 % 16) * 4096 + u1 * 64 + u2>> \o UTF8Decode(hp, idx + 3, endPtr)
             ELSE IF c4 < 65536 THEN <<c4>> \o UTF8Decode(hp, idx + 4, endPtr)
             ELSE <<55296 + ((c4 - 65536) \div 1024), 56320 + ((c4 - 65536) % 1024)>>
                  \o UTF8Decode(hp, idx + 4, endPtr)

\* the addresses UTF8Decode loads
RECURSIVE UTF8DecodeAddrs(_, _, _)
UTF8DecodeAddrs(hp, idx, endPtr) ==
    IF idx >= endPtr THEN {}
    ELSE LET u0 == ByteAt(hp, idx)
             n == IF u0 < 128 THEN 1 ELSE IF u0 \div 32 = 6 THEN 2
                  ELSE IF u0 \div 16 = 14 THEN 3 ELSE 4
         IN  (idx..(idx + n - 1)) \cup UTF8DecodeAddrs(hp, idx + n, endPtr)

\* UTF8ToString(ptr)
UTF8ToString(hp, ptr) == IF ptr = 0 THEN <<>> ELSE UTF8Decode(hp, ptr, EndPtr(hp, ptr))

UTF8ToStringAddrs(hp, ptr) ==
    IF ptr = 0 THEN {}
    ELSE ((ptr..EndPtr(hp, ptr)) \cup UTF8DecodeAddrs(hp, ptr, EndPtr(hp, ptr))) \cap Addrs

----------------------------------------------------------------------------
\* The outcome of a method call: the error thrown ("none" when it returns), the
\* values its message embeds, the heap after it, the value returned, and the
\* addresses stored to (W) and loaded from (R).  A returned value is kept as a
\* sequence: the elements of an array, the code units of a string, or the one
\* number or boolean; a call that returns nothing has the empty sequence.

NoValue == <<>>

Outcome(err, msg, hp, ret, W, R) ==
    [err |-> err, msg |-> msg, hp |-> hp, ret |-> ret, W |-> W, R |-> R]

Return(hp, ret, W, R) == Outcome("none", <<>>, hp, ret, W, R)
Throw(err, msg, hp) == Outcome(err, msg, hp, NoValue, {}, {})

----------------------------------------------------------------------------
\* type-converter.ts : results are [err, msg, val]

Converted(val) == [err |-> "none", msg |-> <<>>, val |-> val]
Rejected(err, msg) == [err |-> err, msg |-> msg, val |-> NoValue]

\* boolToC that gives C_TRUE for both booleans
boolToC_alwaysTrue(value) == C_TRUE

boolToC(value) == IF value THEN C_TRUE ELSE C_FALSE

\* boolFromC that takes only C_TRUE for true
boolFromC_onlyTrue(value) == value = C_TRUE

boolFromC(value) == value # 0

\* charToC that takes the codes up to 127 only
charToC_ascii(char) ==
    IF Len(char) # 1 THEN Rejected("Validation", <<>>)
    ELSE IF char[1] < 0 \/ char[1] > 127 THEN Rejected("Range", char)
    ELSE Converted(char[1])

charToC(char) ==
    IF Len(char) # 1 THEN Rejected("Validation", <<>>)
    ELSE IF char[1] < 0 \/ char[1] > 255 THEN Rejected("Range", char)
    ELSE Converted(char[1])

\* a JavaScript number: the quotient num / den, an integer when den divides
\* num; den = 0 stands for NaN and the infinities
JSNumber(num, den) == <<num, den>>

Number_isInteger(value) == value[2] # 0 /\ value[1] % value[2] = 0

\* charFromC without the Number.isInteger test: String.fromCharCode truncates
charFromC_noIntegerTest(code) ==
    IF code[2] = 0 THEN Rejected("Range", code)
    ELSE IF code[1] \div code[2] < 0 \/ code[1] \div code[2] > 255
         THEN Rejected("Range", <<code[1] \div code[2]>>)
    ELSE Converted(<<code[1] \div code[2]>>)

\* the message embeds the code; String.fromCharCode(code) is the code unit
charFromC(code) ==
    IF ~Number_isInteger(code) THEN Rejected("Range", code)
    ELSE IF code[1] \div code[2] < 0 \/ code[1] \div code[2] > 255
         THEN Rejected("Range", <<code[1] \div code[2]>>)
    ELSE Converted(<<code[1] \div code[2]>>)

\* the property names every object inherits from Object.prototype
ObjectPrototypeKeys ==
    {"constructor", "hasOwnProperty", "isPrototypeOf", "propertyIsEnumerable",
     "toLocaleString", "toString", "valueOf", "__proto__",
     "__defineGetter__", "__defineSetter__", "__lookupGetter__", "__lookupSetter__"}

\* type in C_TYPE_SIZES : own and inherited properties of the object literal
InTypeSizes(type) == type \in NumberTypes \cup ObjectPrototypeKeys

\* C_TYPE_SIZES[type] : the size, or typeof the inherited member
TypeSizesAt(type) ==
    IF type \in NumberTypes THEN <<C_TYPE_SIZES(type)>>
    ELSE IF type = "__proto__" THEN <<"object">> ELSE <<"function">>

validateNumberType(type) ==
    IF ~InTypeSizes(type) THEN Rejected("UnsupportedType", <<type>>)
    ELSE Converted(<<TRUE>>)

getTypeSize(type) ==
    IF validateNumberType(type).err # "none" THEN validateNumberType(type)
    ELSE Converted(TypeSizesAt(type))

----------------------------------------------------------------------------
\* base-pointer.ts : a pointer object is [cls, ptr, type, length] and, for the
\* record, the byte count its constructor asked _malloc for (size, 0 when the
\* address was supplied by the caller: own = FALSE)

None == [cls |-> "none", ptr |-> 0, type |-> "-", length |-> 0, own |-> FALSE, size |-> 0]

Pointer(cls, ptr, type, length, own, size) ==
    [cls |-> cls, ptr |-> ptr, type |-> type, length |-> length, own |-> own, size |-> size]

\* isValid tested as "the address is not negative"
isValid_nonNegative(p) == p.ptr >= 0

isValid(p) == p.ptr # 0

InvalidPointer(hp) == Throw("InvalidPointer", <<>>, hp)

\* setValue and getValue abort on a type they do not know ("invalid type for
\* setValue"): the call throws a RuntimeError
Abort(hp) == Throw("Abort", <<>>, hp)

----------------------------------------------------------------------------
\* number-pointer.ts

NumberPointer_add(p, hp, val) ==
    IF ~isValid(p) THEN InvalidPointer(hp)
    ELSE IF p.type \notin NumberTypes THEN Abort(hp)
    ELSE Return(setValue(hp, p.ptr, val, p.type), NoValue, AccessAddrs(p.ptr, p.type), {})

NumberPointer_write(p, hp, values) ==
    IF ~isValid(p) THEN InvalidPointer(hp)
    ELSE NumberPointer_add(p, hp, values)

\* read() that loads every type through the 32-bit view
NumberPointer_read_asI32(p, hp) ==
    IF ~isValid(p) THEN InvalidPointer(hp)
    ELSE Return(hp, <<getValue(hp, p.ptr, "i32")>>, {}, AccessAddrs(p.ptr, "i32"))

NumberPointer_read(p, hp) ==
    IF ~isValid(p) THEN InvalidPointer(hp)
    ELSE IF p.type \notin NumberTypes THEN Abort(hp)
    ELSE Return(hp, <<getValue(hp, p.ptr, p.type)>>, {}, AccessAddrs(p.ptr, p.type))

----------------------------------------------------------------------------
\* array-pointer.ts (indices are 0-based as in the source)

\* add() without the bounds check
ArrayPointer_add_unchecked(p, hp, loc, val) ==
    IF ~isValid(p) THEN InvalidPointer(hp)
    ELSE Return(setValue(hp, p.ptr + loc * C_TYPE_SIZES(p.type), val, p.type), NoValue,
                AccessAddrs(p.ptr + loc * C_TYPE_SIZES(p.type), p.type), {})

\* add() whose bounds check lets the index one past the end through
ArrayPointer_add_offByOne(p, hp, loc, val) ==
    IF ~isValid(p) THEN InvalidPointer(hp)
    ELSE IF loc >= 0 /\ loc <= p.length
         THEN Return(setValue(hp, p.ptr + loc * C_TYPE_SIZES(p.type), val, p.type), NoValue,
                     AccessAddrs(p.ptr + loc * C_TYPE_SIZES(p.type), p.type), {})
         ELSE Throw("OutOfBounds", <<loc, p.length>>, hp)

\* add() that stores the value in the element and in the one after it
ArrayPointer_add_wideStore(p, hp, loc, val) ==
    IF ~isValid(p) THEN InvalidPointer(hp)
    ELSE IF loc >= 0 /\ loc < p.length
         THEN Return(setValue(setValue(hp, p.ptr + loc * C_TYPE_SIZES(p.type), val, p.type),
                              p.ptr + (loc + 1) * C_TYPE_SIZES(p.type), val, p.type),
                     NoValue,
                     AccessAddrs(p.ptr + loc * C_TYPE_SIZES(p.type), p.type)
                     \cup AccessAddrs(p.ptr + (loc + 1) * C_TYPE_SIZES(p.type), p.type), {})
         ELSE Throw("OutOfBounds", <<loc, p.length>>, hp)

\* add() whose Out-of-bounds message names the index only
ArrayPointer_add_indexOnly(p, hp, loc, val) ==
    IF ~isValid(p) THEN InvalidPointer(hp)
    ELSE IF loc >= 0 /\ loc < p.length
         THEN Return(setValue(hp, p.ptr + loc * C_TYPE_SIZES(p.type), val, p.type), NoValue,
                     AccessAddrs(p.ptr + loc * C_TYPE_SIZES(p.type), p.type), {})
         ELSE Throw("OutOfBounds", <<loc>>, hp)

ArrayPointer_add(p, hp, loc, val) ==
    IF ~isValid(p) THEN InvalidPointer(hp)
    ELSE IF loc >= 0 /\ loc < p.length
         THEN IF p.type \notin NumberTypes THEN Abort(hp)
              ELSE
              Return(setValue(hp, p.ptr + loc * C_TYPE_SIZES(p.type), val, p.type), NoValue,
                     AccessAddrs(p.ptr + loc * C_TYPE_SIZES(p.type), p.type), {})
         ELSE Throw("OutOfBounds", <<loc, p.length>>, hp)

\* read() that steps one byte, not one element, from entry to entry
ArrayPointer_read_byteStride(p, hp) ==
    IF ~isValid(p) THEN InvalidPointer(hp)
    ELSE Return(hp, [i \in 1..p.length |-> getValue(hp, p.ptr + (i - 1), p.type)],
                {}, UNION {AccessAddrs(p.ptr + (i - 1), p.type) : i \in 1..p.length})

ArrayPointer_read(p, hp) ==
    IF ~isValid(p) THEN InvalidPointer(hp)
    ELSE IF p.type \notin NumberTypes /\ p.length > 0 THEN Abort(hp)
    ELSE IF p.type \notin NumberTypes THEN Return(hp, <<>>, {}, {})
    ELSE LET size == C_TYPE_SIZES(p.type)
         IN  Return(hp, [i \in 1..p.length |-> getValue(hp, p.ptr + (i - 1) * size, p.type)],
                    {}, UNION {AccessAddrs(p.ptr + (i - 1) * size, p.type) : i \in 1..p.length})

\* values.forEach((val, i) => this.add(i, val)) from element i on; a throwing
\* add ends the loop with what was stored so far
RECURSIVE ArrayPointer_forEach(_, _, _, _)
ArrayPointer_forEach(p, acc, values, i) ==
    IF i >= Len(values) THEN acc
    ELSE LET o == ArrayPointer_add(p, acc.hp, i, values[i + 1])
         IN  IF o.err # "none" THEN Outcome(o.err, o.msg, o.hp, NoValue, acc.W, acc.R)
             ELSE ArrayPointer_forEach(p, Return(o.hp, NoValue, acc.W \cup o.W, acc.R), values, i + 1)

\* write() without the length check: the elements are stored until add() throws
ArrayPointer_write_unchecked(p, hp, values) ==
    IF ~isValid(p) THEN InvalidPointer(hp)
    ELSE ArrayPointer_forEach(p, Return(hp, NoValue, {}, {}), values, 0)

\* write() that compares the lengths before it validates the pointer
ArrayPointer_write_lengthFirst(p, hp, values) ==
    IF Len(values) > p.length
    THEN Throw("LengthMismatch", <<p.length, Len(values)>>, hp)
    ELSE IF ~isValid(p) THEN InvalidPointer(hp)
    ELSE ArrayPointer_forEach(p, Return(hp, NoValue, {}, {}), values, 0)

ArrayPointer_write(p, hp, values) ==
    IF ~isValid(p) THEN InvalidPointer(hp)
    ELSE IF Len(values) > p.length
         THEN Throw("LengthMismatch", <<p.length, Len(values)>>, hp)
         ELSE ArrayPointer_forEach(p, Return(hp, NoValue, {}, {}), values, 0)

----------------------------------------------------------------------------
\* string-pointer.ts

\* write() that gives stringToUTF8 room for the terminator on top of the length
StringPointer_write_extraRoom(p, hp, input) ==
    IF ~isValid(p) THEN InvalidPointer(hp)
    ELSE IF Len(input) + 1 > p.length THEN Throw("BufferOverflow", <<>>, hp)
    ELSE Return(stringToUTF8(hp, input, p.ptr, p.length + 1), NoValue,
                stringToUTF8Addrs(input, p.ptr, p.length + 1), {})

StringPointer_write(p, hp, input) ==
    IF ~isValid(p) THEN InvalidPointer(hp)
    ELSE IF Len(input) + 1 > p.length THEN Throw("BufferOverflow", <<>>, hp)
    ELSE Return(stringToUTF8(hp, input, p.ptr, p.length), NoValue,
                stringToUTF8Addrs(input, p.ptr, p.length), {})

StringPointer_read(p, hp) ==
    IF ~isValid(p) THEN InvalidPointer(hp)
    ELSE Return(hp, UTF8ToString(hp, p.ptr), {}, UTF8ToStringAddrs(hp, p.ptr))

----------------------------------------------------------------------------
\* char-pointer.ts

CharPointer_write(p, hp, input) ==
    IF ~isValid(p) THEN InvalidPointer(hp)
    ELSE LET cVal == charToC(input)
         IN  IF cVal.err # "none" THEN Throw(cVal.err, cVal.msg, hp)
             ELSE Return(setValue(hp, p.ptr, cVal.val, "i8"), NoValue, AccessAddrs(p.ptr, "i8"), {})

CharPointer_read(p, hp) ==
    IF ~isValid(p) THEN InvalidPointer(hp)
    ELSE LET c == charFromC(JSNumber(getValue(hp, p.ptr, "i8"), 1))
         IN  Outcome(c.err, c.msg, hp, c.val, {}, AccessAddrs(p.ptr, "i8"))

----------------------------------------------------------------------------
\* bool-pointer.ts

BoolPointer_write(p, hp, value) ==
    IF ~isValid(p) THEN InvalidPointer(hp)
    ELSE Return(setValue(hp, p.ptr, boolToC(value), "i8"), NoValue, AccessAddrs(p.ptr, "i8"), {})

\* read() that clears the byte it has read
BoolPointer_read_clearing(p, hp) ==
    IF ~isValid(p) THEN InvalidPointer(hp)
    ELSE Return(setValue(hp, p.ptr, C_FALSE, "i8"),
                <<boolFromC(getValue(hp, p.ptr, "i8"))>>,
                AccessAddrs(p.ptr, "i8"), AccessAddrs(p.ptr, "i8"))

BoolPointer_read(p, hp) ==
    IF ~isValid(p) THEN InvalidPointer(hp)
    ELSE Return(hp, <<boolFromC(getValue(hp, p.ptr, "i8"))>>, {}, AccessAddrs(p.ptr, "i8"))

----------------------------------------------------------------------------
\* Dispatch on the class of the object (the abstract read() of BasePointer and
\* the write() every subclass defines)

read(p, hp) ==
    CASE p.cls = "Number" -> NumberPointer_read(p, hp)
      [] p.cls = "Array" -> ArrayPointer_read(p, hp)
      [] p.cls = "String" -> StringPointer_read(p, hp)
      [] p.cls = "Char" -> CharPointer_read(p, hp)
      [] p.cls = "Bool" -> BoolPointer_read(p, hp)

write(p, hp, input) ==
    CASE p.cls = "Number" -> NumberPointer_write(p, hp, input)
      [] p.cls = "Array" -> ArrayPointer_write(p, hp, input)
      [] p.cls = "String" -> StringPointer_write(p, hp, input)
      [] p.cls = "Char" -> CharPointer_write(p, hp, input)
      [] p.cls = "Bool" -> BoolPointer_write(p, hp, input)

----------------------------------------------------------------------------
\* Constructors and factories.  addr is what wasm._malloc returns when the
\* constructor calls it.  A factory gives the object it returns (None when it
\* throws), the outcome, and the _malloc calls made as <<size, address>>.

Made(p, o, mal) == [p |-> IF o.err = "none" THEN p ELSE None, o |-> o, mal |-> mal]

\* constructor(wasm, type, ptr?) : super(wasm, ptr ?? wasm._malloc(C_TYPE_SIZES[type]))
NumberPointer_new(type, ptr, own, hp) ==
    Made(Pointer("Number", ptr, type, 0, own, IF own THEN MallocBytes(type, 1) ELSE 0),
         Return(hp, NoValue, {}, {}),
         IF own THEN <<<<MallocBytes(type, 1), ptr>>>> ELSE <<>>)

NumberPointer_alloc(type, addr, hp) == NumberPointer_new(type, addr, TRUE, hp)

NumberPointer_from(type, input, addr, hp) ==
    LET arr == NumberPointer_alloc(type, addr, hp)
    IN  Made(arr.p, NumberPointer_write(arr.p, arr.o.hp, input), arr.mal)

\* constructor(wasm, type, length, ptr?)
ArrayPointer_new(type, length, ptr, own, hp) ==
    Made(Pointer("Array", ptr, type, length, own,
                 IF own THEN MallocBytes(type, length) ELSE 0),
         Return(hp, NoValue, {}, {}),
         IF own THEN <<<<MallocBytes(type, length), ptr>>>> ELSE <<>>)

ArrayPointer_alloc(type, length, addr, hp) == ArrayPointer_new(type, length, addr, TRUE, hp)

ArrayPointer_from(type, length, input, addr, hp) ==
    LET arr == ArrayPointer_alloc(type, length, addr, hp)
    IN  Made(arr.p, ArrayPointer_write(arr.p, arr.o.hp, input), arr.mal)

\* constructor(wasm, length, ptr?)
StringPointer_new(length, ptr, own, hp) ==
    Made(Pointer("String", ptr, "-", length, own,
                 IF own THEN length * C_TYPE_SIZES("i8") ELSE 0),
         Return(hp, NoValue, {}, {}),
         IF own THEN <<<<length * C_TYPE_SIZES("i8"), ptr>>>> ELSE <<>>)

StringPointer_alloc(length, addr, hp) == StringPointer_new(length, addr, TRUE, hp)

StringPointer_from(length, input, addr, hp) ==
    LET str == StringPointer_alloc(length + 1, addr, hp)
    IN  Made(str.p, StringPointer_write(str.p, str.o.hp, input), str.mal)

\* constructor(wasm, ptr?) : if (!ptr) this.write("\0")
CharPointer_new(ptr, own, hp) ==
    LET p == Pointer("Char", ptr, "-", 0, own, IF own THEN C_TYPE_SIZES("i8") ELSE 0)
    IN  Made(p,
             IF own \/ ptr = 0 THEN CharPointer_write(p, hp, <<0>>)
             ELSE Return(hp, NoValue, {}, {}),
             IF own THEN <<<<C_TYPE_SIZES("i8"), ptr>>>> ELSE <<>>)

CharPointer_alloc(addr, hp) == CharPointer_new(addr, TRUE, hp)

CharPointer_from(input, addr, hp) ==
    IF Len(input) # 1 THEN Made(None, Throw("Validation", <<>>, hp), <<>>)
    ELSE LET char == CharPointer_alloc(addr, hp)
         IN  IF char.o.err # "none" THEN char
             ELSE LET o == CharPointer_write(char.p, char.o.hp, input)
                  IN  Made(char.p, Outcome(o.err, o.msg, o.hp, o.ret, char.o.W \cup o.W, o.R),
                           char.mal)

\* the constructor that writes false whether or not an address was supplied
BoolPointer_new_alwaysInit(ptr, own, hp) ==
    LET p == Pointer("Bool", ptr, "-", 0, own, IF own THEN C_TYPE_SIZES("i8") ELSE 0)
    IN  Made(p, BoolPointer_write(p, hp, FALSE),
             IF own THEN <<<<C_TYPE_SIZES("i8"), ptr>>>> ELSE <<>>)

\* the constructor without its initial write(false)
BoolPointer_new_noInit(ptr, own, hp) ==
    Made(Pointer("Bool", ptr, "-", 0, own, IF own THEN C_TYPE_SIZES("i8") ELSE 0),
         Return(hp, NoValue, {}, {}),
         IF own THEN <<<<C_TYPE_SIZES("i8"), ptr>>>> ELSE <<>>)

\* constructor(wasm, ptr?) : if (!ptr) this.write(false)
BoolPointer_new(ptr, own, hp) ==
    LET p == Pointer("Bool", ptr, "-", 0, own, IF own THEN C_TYPE_SIZES("i8") ELSE 0)
    IN  Made(p,
             IF own \/ ptr = 0 THEN BoolPointer_write(p, hp, FALSE)
             ELSE Return(hp, NoValue, {}, {}),
             IF own THEN <<<<C_TYPE_SIZES("i8"), ptr>>>> ELSE <<>>)

BoolPointer_alloc(addr, hp) == BoolPointer_new(addr, TRUE, hp)

BoolPointer_from(value, addr, hp) ==
    LET ptr == BoolPointer_alloc(addr, hp)
    IN  IF ptr.o.err # "none" THEN ptr
        ELSE LET o == BoolPointer_write(ptr.p, ptr.o.hp, value)
             IN  Made(ptr.p, Outcome(o.err, o.msg, o.hp, o.ret, ptr.o.W \cup o.W, o.R), ptr.mal)

\* the byte count the constructor of the class passes to _malloc
MallocSize(cls, type, length) ==
    CASE cls = "Number" -> MallocBytes(type, 1)
      [] cls = "Array" -> MallocBytes(type, length)
      [] cls = "String" -> length * C_TYPE_SIZES("i8")
      [] cls \in {"Char", "Bool"} -> C_TYPE_SIZES("i8")

Alloc(cls, type, length, addr, hp) ==
    CASE cls = "Number" -> NumberPointer_alloc(type, addr, hp)
      [] cls = "Array" -> ArrayPointer_alloc(type, length, addr, hp)
      [] cls = "String" -> StringPointer_alloc(length, addr, hp)
      [] cls = "Char" -> CharPointer_alloc(addr, hp)
      [] cls = "Bool" -> BoolPointer_alloc(addr, hp)

From(cls, type, length, input, addr, hp) ==
    CASE cls = "Number" -> NumberPointer_from(type, input, addr, hp)
      [] cls = "Array" -> ArrayPointer_from(type, length, input, addr, hp)
      [] cls = "String" -> StringPointer_from(length, input, addr, hp)
      [] cls = "Char" -> CharPointer_from(input, addr, hp)
      [] cls = "Bool" -> BoolPointer_from(input, addr, hp)

New(cls, type, length, ptr, hp) ==
    CASE cls = "Number" -> NumberPointer_new(type, ptr, FALSE, hp)
      [] cls = "Array" -> ArrayPointer_new(type, length, ptr, FALSE, hp)
      [] cls = "String" -> StringPointer_new(length, ptr, FALSE, hp)
      [] cls = "Char" -> CharPointer_new(ptr, FALSE, hp)
      [] cls = "Bool" -> BoolPointer_new(ptr, FALSE, hp)

----------------------------------------------------------------------------
\* Inputs of the calls

\* 1.5 = 1.1b, -5 = -1.01b * 2^2, 1.75 = 1.11b, and 2^24 + 1 (fraction bit 24
\* set) : a double no float holds
OneAndHalf == FloatVal("norm", FALSE, 0, <<8, 0, 0, 0, 0, 0, 0>>)
MinusFive == FloatVal("norm", TRUE, 2, <<4, 0, 0, 0, 0, 0, 0>>)
SevenQuarters == FloatVal("norm", FALSE, 0, <<12, 0, 0, 0, 0, 0, 0>>)
Above2Pow24 == FloatVal("norm", FALSE, 24, <<0, 0, 0, 16, 0, 0, 0>>)

\* 2^53 + 1 : a 64-bit integer no double holds
Big53 == BigInt(FALSE, <<1, 0, 0, 0, 0, 0, 32>>)

\* values that fit the width of the type: the largest and the smallest integer,
\* an i64 above 2^53, and floating-point numbers the type holds exactly
FitVals(type) ==
    CASE type = "i8" -> {127, -128}
      [] type = "i16" -> {32767, -32768}
      [] type = "i32" -> {2147483647, -2147483647 - 1}
      [] type = "i64" -> {Big53, BigOfInt(-5)}
      [] type = "float" -> {OneAndHalf, MinusFive}
      [] type = "double" -> {OneAndHalf, Above2Pow24}
      [] type \in UnknownTypes -> {5, -5}
      [] OTHER -> {}

\* values the type is too narrow for: they are stored wrapped or rounded
WideVals(type) ==
    CASE type = "i8" -> {200}
      [] type = "float" -> {Above2Pow24}
      [] OTHER -> {}

Vals(type) == FitVals(type) \cup WideVals(type)

\* the first n elements of v, w, v, w, ...
Alternate(v, w, n) == [i \in 1..n |-> IF i % 2 = 1 THEN v ELSE w]

\* the fitting values of the type in a fixed order
FitSeq(type) ==
    CASE type = "i8" -> <<127, -128>>
      [] type = "i16" -> <<32767, -32768>>
      [] type = "i32" -> <<2147483647, -2147483647 - 1>>
      [] type = "i64" -> <<Big53, BigOfInt(-5)>>
      [] type = "float" -> <<OneAndHalf, MinusFive>>
      [] type = "double" -> <<OneAndHalf, Above2Pow24>>
      [] type \in UnknownTypes -> <<5, -5>>

\* arrays given to ArrayPointer.write / from: alternating fitting values of
\* every length up to MaxLen + 1, a one-element array of the other fitting
\* value, and a one-element array of a value that does not fit
ArrayInputs(type) ==
    {Alternate(FitSeq(type)[1], FitSeq(type)[2], n) : n \in 0..(MaxLen + 1)}
    \cup {<<FitSeq(type)[2]>>}
    \cup {<<v>> : v \in WideVals(type)}

\* values given to ArrayPointer.add
AddVals(type) == {FitSeq(type)[2]} \cup WideVals(type)

\* "", "A", "e-acute", "euro", "AB", "e-acute twice", "ABC"
TextInputs == {<<>>, <<65>>, <<233>>, <<8364>>, <<65, 66>>, <<233, 233>>, <<65, 66, 67>>}

\* "", "A", "e-acute", "euro", "AB", and the characters with the codes 0, 127,
\* 128, 255 and 256
CharInputs ==
    {<<>>, <<65>>, <<233>>, <<8364>>, <<65, 66>>, <<0>>, <<127>>, <<128>>, <<255>>, <<256>>}

Classes == {"Number", "Array", "String", "Char", "Bool"}

Types(cls) == IF cls \in {"Number", "Array"} THEN NumberTypes ELSE {"-"}

Lengths(cls) ==
    CASE cls = "Array" -> 0..MaxLen
      [] cls = "String" -> 0..MaxCap
      [] OTHER -> {0}

Inputs(cls, type) ==
    CASE cls = "Number" -> Vals(type)
      [] cls = "Array" -> ArrayInputs(type)
      [] cls = "String" -> TextInputs
      [] cls = "Char" -> CharInputs
      [] cls = "Bool" -> BOOLEAN
      [] OTHER -> {}

\* element values guest code stores when it mutates memory in place
GuestVals(type) ==
    CASE type = "i8" -> {7}
      [] type = "i16" -> {-300}
      [] type = "i32" -> {-70000}
      [] type = "i64" -> {BigOfInt(-70000)}
      [] type \in {"float", "double"} -> {SevenQuarters}
      [] type \in UnknownTypes -> {7}

\* the bytes a pointer object stands for, by its class
Reserved(p) ==
    CASE p.cls = "Number" -> MallocBytes(p.type, 1)
      [] p.cls = "Array" -> MallocBytes(p.type, p.length)
      [] p.cls = "String" -> p.length
      [] p.cls \in {"Char", "Bool"} -> 1
      [] OTHER -> 0

----------------------------------------------------------------------------
\* State machine

\* the record of a call: idx is the index given to add (the address given to a
\* constructor, the element guest code stores to), arg the value given, as a
\* sequence like a returned value
Call(op, h, cls, idx, arg, o, freed, mal) ==
    [op |-> op, h |-> h, cls |-> cls, idx |-> idx, arg |-> arg, err |-> o.err, msg |-> o.msg,
     ret |-> o.ret, W |-> o.W, R |-> o.R, freed |-> freed, mal |-> mal]

ArgOf(cls, input) == IF cls \in {"Number", "Bool"} THEN <<input>> ELSE input

\* a behaviour creates objects of one class, type and length, in slots 1..n
Shapes == {sh \in [cls : Classes, type : NumberTypes \cup {"-"},
                   length : 0..(MaxLen + MaxCap), n : Handles] :
              sh.type \in Types(sh.cls) /\ sh.length \in Lengths(sh.cls)}

\* every shape is explored with one object, the small ones with two as well
Explored(sh) ==
    \/ sh.n = 1
    \/ sh.cls \in {"Char", "Bool"}
    \/ sh.cls = "Number" /\ sh.type = "i16"
    \/ sh.cls = "String" /\ sh.length = 2

Init ==
    /\ shape \in {sh \in Shapes : Explored(sh)}
    /\ handles = [h \in Handles |-> None]
    /\ heap = [a \in Addrs |-> 0]
    /\ live = [b \in Bases |-> Free]
    /\ last = Call("init", 0, "none", 0, NoValue, Return(heap, NoValue, {}, {}), <<>>, <<>>)
    /\ badFree = FALSE
    /\ frees = [h \in Handles |-> 0]

\* slot h can take a new object: it is empty and the slots before it are not
Empty(h) ==
    /\ ~badFree
    /\ h <= shape.n
    /\ handles[h].cls = "none"
    /\ \A g \in Handles : g < h => handles[g].cls # "none"

\* the effect of a constructor or factory call that made the _malloc calls m.mal
Created(op, h, cls, idx, arg, m) ==
    /\ handles' = [handles EXCEPT ![h] = m.p]
    /\ heap' = m.o.hp
    /\ last' = Call(op, h, cls, idx, arg, m.o, <<>>, m.mal)
    /\ UNCHANGED <<badFree, frees, shape>>

Allocated(m) ==
    live' = IF m.mal = <<>> THEN live ELSE AfterMalloc(live, m.mal[1][2], m.mal[1][1])

\* X.alloc(wasm, ...)
alloc(h, cls, type, length) ==
    /\ Empty(h)
    /\ \E addr \in MallocResults(live, MallocSize(cls, type, length)) :
          /\ Created("alloc", h, cls, 0, NoValue, Alloc(cls, type, length, addr, heap))
          /\ Allocated(Alloc(cls, type, length, addr, heap))

\* X.from(wasm, ..., input)
from(h, cls, type, length, input) ==
    /\ Empty(h)
    /\ length >= 0
    /\ \E addr \in MallocResults(live,
                     MallocSize(cls, type, IF cls = "String" THEN length + 1 ELSE length)) :
          /\ Created("from", h, cls, 0, ArgOf(cls, input),
                     From(cls, type, length, input, addr, heap))
          /\ Allocated(From(cls, type, length, input, addr, heap))

\* the addresses a caller has to supply: the address of an object it holds, and
\* the address of a block guest code allocated and returned to it
Supplied ==
    {handles[g].ptr : g \in {x \in Handles : isValid(handles[x])}}
    \cup (MallocResults(live, 1) \ {0})

\* new X(wasm, ..., ptr) over an address the caller supplies; a block that guest
\* code allocated for it is live from then on
new(h, cls, type, length, ptr) ==
    /\ Empty(h)
    /\ Created("new", h, cls, ptr, NoValue, New(cls, type, length, ptr, heap))
    /\ live' = IF IsLive(live, ptr) THEN live
               ELSE AfterMalloc(live, ptr, MallocSize(cls, type, length))

\* a method call on the object in slot h with outcome o
Called(op, h, idx, arg, o) ==
    /\ heap' = o.hp
    /\ last' = Call(op, h, handles[h].cls, idx, arg, o, <<>>, <<>>)
    /\ UNCHANGED <<handles, live, badFree, frees, shape>>

Read(h) ==
    /\ ~badFree
    /\ handles[h].cls # "none"
    /\ Called("read", h, 0, NoValue, read(handles[h], heap))

Write(h, input) ==
    /\ ~badFree
    /\ handles[h].cls # "none"
    /\ input \in Inputs(handles[h].cls, handles[h].type)
    /\ Called("write", h, 0, ArgOf(handles[h].cls, input), write(handles[h], heap, input))

AddInputs(p) == IF p.cls = "Number" THEN Vals(p.type)
                ELSE IF p.cls = "Array" THEN AddVals(p.type) ELSE {}

\* NumberPointer.add(val) and ArrayPointer.add(loc, val)
Add(h, loc, val) ==
    /\ ~badFree
    /\ handles[h].cls \in {"Number", "Array"}
    /\ val \in AddInputs(handles[h])
    /\ IF handles[h].cls = "Number"
       THEN loc = 0 /\ Called("add", h, 0, <<val>>, NumberPointer_add(handles[h], heap, val))
       ELSE Called("add", h, loc, <<val>>, ArrayPointer_add(handles[h], heap, loc, val))

\* free() without the test of _ptr
BasePointer_free_unguarded(p) == [freed |-> <<p.ptr>>, p |-> [p EXCEPT !.ptr = 0]]

\* free() that calls _free and leaves _ptr as it was
BasePointer_free_keepsPtr(p) ==
    IF p.ptr # 0 THEN [freed |-> <<p.ptr>>, p |-> p]
    ELSE [freed |-> <<>>, p |-> p]

\* free() that clears the whole object, not only _ptr
BasePointer_free_clearsAll(p) ==
    IF p.ptr # 0 THEN [freed |-> <<p.ptr>>, p |-> [None EXCEPT !.cls = p.cls]]
    ELSE [freed |-> <<>>, p |-> p]

\* BasePointer.free on object p: the addresses given to _free and the object after
BasePointer_free(p) ==
    IF p.ptr # 0 THEN [freed |-> <<p.ptr>>, p |-> [p EXCEPT !.ptr = 0]]
    ELSE [freed |-> <<>>, p |-> p]

Freed(lv, freed) == IF freed = <<>> THEN lv ELSE AfterFree(lv, freed[1])

free(h) ==
    /\ ~badFree
    /\ handles[h].cls # "none"
    /\ LET f == BasePointer_free(handles[h])
       IN  /\ handles' = [handles EXCEPT ![h] = f.p]
           /\ live' = Freed(live, f.freed)
           /\ badFree' = (f.freed # <<>> /\ ~IsLive(live, f.freed[1]))
           /\ frees' = [frees EXCEPT ![h] = @ + Len(f.freed)]
           /\ last' = Call("free", h, handles[h].cls, 0, NoValue,
                           Return(heap, NoValue, {}, {}), f.freed, <<>>)
    /\ UNCHANGED <<heap, shape>>

\* BasePointer.readAndFree on object p: the outcome, the addresses freed, the object after
BasePointer_readAndFree(p, hp) ==
    IF ~isValid(p) THEN [o |-> InvalidPointer(hp), freed |-> <<>>, p |-> p]
    ELSE LET value == read(p, hp)
         IN  IF value.err # "none" THEN [o |-> value, freed |-> <<>>, p |-> p]
             ELSE [o |-> value, freed |-> BasePointer_free(p).freed, p |-> BasePointer_free(p).p]

readAndFree(h) ==
    /\ ~badFree
    /\ handles[h].cls # "none"
    /\ LET r == BasePointer_readAndFree(handles[h], heap)
       IN  /\ handles' = [handles EXCEPT ![h] = r.p]
           /\ heap' = r.o.hp
           /\ live' = Freed(live, r.freed)
           /\ badFree' = (r.freed # <<>> /\ ~IsLive(live, r.freed[1]))
           /\ frees' = [frees EXCEPT ![h] = @ + Len(r.freed)]
           /\ last' = Call("readAndFree", h, handles[h].cls, 0, NoValue, r.o, r.freed, <<>>)
    /\ UNCHANGED shape

\* what guest code, given handles[h].ptr, stores in place: an element of the
\* type at an element index (Number, Array), or a byte at an offset
GuestStores(p) ==
    CASE p.cls = "Number" -> {<<0, v>> : v \in GuestVals(p.type)}
      [] p.cls = "Array" -> {<<i, v>> : i \in 0..(p.length - 1), v \in GuestVals(p.type)}
      [] p.cls = "String" -> {<<i, b>> : i \in 0..(p.length - 1), b \in {0, 66}}
      [] p.cls \in {"Char", "Bool"} -> {<<0, b>> : b \in {0, 1, 2, 255}}
      [] OTHER -> {}

Guest(h, st) ==
    /\ ~badFree
    /\ isValid(handles[h])
    /\ st \in GuestStores(handles[h])
    /\ LET p == handles[h]
           type == IF p.cls \in {"Number", "Array"} /\ p.type \in NumberTypes
                   THEN p.type ELSE "i8"
           at == p.ptr + st[1] * C_TYPE_SIZES(type)
       IN  /\ heap' = setValue(heap, at, st[2], type)
           /\ last' = Call("guest", h, p.cls, st[1], <<st[2]>>,
                           Return(heap, NoValue, AccessAddrs(at, type), {}), <<>>, <<>>)
    /\ UNCHANGED <<handles, live, badFree, frees, shape>>

Next ==
    \/ \E h \in Handles : alloc(h, shape.cls, shape.type, shape.length)
    \/ \E h \in Handles, input \in Inputs(shape.cls, shape.type) :
          from(h, shape.cls, shape.type,
               IF shape.cls = "String" THEN shape.length - 1 ELSE shape.length, input)
    \/ \E h \in Handles, ptr \in Supplied : new(h, shape.cls, shape.type, shape.length, ptr)
    \/ \E h \in Handles : Read(h)
    \/ \E h \in Handles : \E input \in Inputs(handles[h].cls, handles[h].type) : Write(h, input)
    \/ \E h \in Handles, loc \in -1..MaxLen :
          \E val \in AddInputs(handles[h]) : Add(h, loc, val)
    \/ \E h \in Handles : free(h)
    \/ \E h \in Handles : readAndFree(h)
    \/ \E h \in Handles : \E st \in GuestStores(handles[h]) : Guest(h, st)

Spec == Init /\ [][Next]_vars

\* The same calls made with a type that is no key of C_TYPE_SIZES (a caller
\* that is not type-checked): NumberPointer and ArrayPointer objects of every
\* unknown type and length in one slot, and NumberPointer objects in two.
UnknownTypeInit ==
    /\ shape \in {sh \in [cls : {"Number", "Array"}, type : UnknownTypes,
                          length : 0..MaxLen, n : Handles] :
                     /\ sh.length \in Lengths(sh.cls)
                     /\ sh.n = 1 \/ sh.cls = "Number"}
    /\ handles = [h \in Handles |-> None]
    /\ heap = [a \in Addrs |-> 0]
    /\ live = [b \in Bases |-> Free]
    /\ last = Call("init", 0, "none", 0, NoValue, Return(heap, NoValue, {}, {}), <<>>, <<>>)
    /\ badFree = FALSE
    /\ frees = [h \in Handles |-> 0]

UnknownTypeSpec == UnknownTypeInit /\ [][Next]_vars

\* The same calls on two objects of a kind: two one-element ArrayPointer
\* objects of the widest and of a narrow type, and two StringPointer objects.
PairInit ==
    /\ shape \in {sh \in Shapes :
                     /\ sh.n = 2
                     /\ \/ sh.cls = "Array" /\ sh.type \in {"i64", "i16"} /\ sh.length = 1
                        \/ sh.cls = "String" /\ sh.length = 2}
    /\ handles = [h \in Handles |-> None]
    /\ heap = [a \in Addrs |-> 0]
    /\ live = [b \in Bases |-> Free]
    /\ last = Call("init", 0, "none", 0, NoValue, Return(heap, NoValue, {}, {}), <<>>, <<>>)
    /\ badFree = FALSE
    /\ frees = [h \in Handles |-> 0]

PairSpec == PairInit /\ [][Next]_vars

----------------------------------------------------------------------------
\* The static methods of TypeConverter, called directly.  A behaviour calls
\* one method (shape.type) with the inputs below; no pointer object exists.

ConverterMethods ==
    {"boolToC", "boolFromC", "charToC", "charFromC", "validateNumberType", "getTypeSize"}

\* strings given to charToC: "", every single code unit up to MaxCode, the
\* euro sign, the last code unit, "AB", and a surrogate pair (an emoji)
CharStrings ==
    {<<>>, <<8364>>, <<65535>>, <<65, 66>>, <<55357, 56846>>}
    \cup {<<c>> : c \in 0..MaxCode}

\* numbers given to charFromC: the integers from -2 to MaxCode, 3.14, 0.5,
\* -0.5, 255.5, 6 / 2, NaN and Infinity
CodeNumbers ==
    {JSNumber(n, 1) : n \in -2..MaxCode}
    \cup {JSNumber(157, 50), JSNumber(1, 2), JSNumber(-1, 2), JSNumber(511, 2),
          JSNumber(6, 2), JSNumber(0, 0), JSNumber(1, 0)}

\* numbers given to boolFromC
BoolBytes == {0, 1, 2, 42, 255, -1}

\* identifiers given to validateNumberType and getTypeSize
TypeNames ==
    NumberTypes \cup {"string", "", "I8", "i128", "int", "u8", "f32", "float32",
                      "toString", "constructor", "valueOf", "__proto__"}

TypeConverterInit ==
    /\ shape \in {[cls |-> "none", type |-> f, length |-> 0, n |-> 1] : f \in ConverterMethods}
    /\ handles = [h \in Handles |-> None]
    /\ heap = [a \in Addrs |-> 0]
    /\ live = [b \in Bases |-> Free]
    /\ last = Call("init", 0, "none", 0, NoValue, Return(heap, NoValue, {}, {}), <<>>, <<>>)
    /\ badFree = FALSE
    /\ frees = [h \in Handles |-> 0]

\* a call of method op with argument arg that gave c = [err, msg, val]
Converted_by(op, arg, c) ==
    /\ shape.type = op
    /\ last' = Call(op, 0, "TypeConverter", 0, arg,
                    Outcome(c.err, c.msg, heap, c.val, {}, {}), <<>>, <<>>)
    /\ UNCHANGED <<handles, heap, live, badFree, frees, shape>>

TypeConverter_boolToC(value) ==
    Converted_by("boolToC", <<value>>, Converted(<<boolToC(value)>>))

TypeConverter_boolFromC(value) ==
    Converted_by("boolFromC", <<value>>, Converted(<<boolFromC(value)>>))

TypeConverter_charToC(char) ==
    Converted_by("charToC", char,
                 IF charToC(char).err = "none" THEN Converted(<<charToC(char).val>>)
                 ELSE charToC(char))

TypeConverter_charFromC(code) == Converted_by("charFromC", code, charFromC(code))

TypeConverter_validateNumberType(type) ==
    Converted_by("validateNumberType", <<type>>, validateNumberType(type))

TypeConverter_getTypeSize(type) ==
    Converted_by("getTypeSize", <<type>>, getTypeSize(type))

TypeConverterNext ==
    \/ \E value \in BOOLEAN : TypeConverter_boolToC(value)
    \/ \E value \in BoolBytes : TypeConverter_boolFromC(value)
    \/ \E char \in CharStrings : TypeConverter_charToC(char)
    \/ \E code \in CodeNumbers : TypeConverter_charFromC(code)
    \/ \E type \in TypeNames : TypeConverter_validateNumberType(type)
    \/ \E type \in TypeNames : TypeConverter_getTypeSize(type)

TypeConverterSpec == TypeConverterInit /\ [][TypeConverterNext]_vars

----------------------------------------------------------------------------
\* Properties.  A step that is not a stuttering step is a call, and last' is
\* the record of that call; an action property below reads the state before
\* the call unprimed and the call's record and effect primed.

UseOps == {"read", "write", "add", "readAndFree"}

\* C1: once _free has been called through a handle (release), every later
\* read, write, add or readAndFree on it throws the Invalid-Pointer error,
\* loads and stores no heap byte and calls no _free; this for all five classes.
C1_ReleasedHandleRejectsUse ==
    [][\A h \in Handles :
          (frees[h] > 0 /\ last'.h = h /\ last'.op \in UseOps)
          => /\ last'.err = "InvalidPointer"
             /\ last'.R = {} /\ last'.W = {} /\ last'.freed = <<>>
             /\ heap' = heap /\ live' = live /\ frees' = frees]_vars

\* a readAndFree on a released handle was rejected
C1_Witness ==
    /\ last.op = "readAndFree" /\ last.h \in Handles
    /\ frees[last.h] = 1 /\ last.freed = <<>>
    /\ last.err = "InvalidPointer"

\* C2: _free is called at most once through a handle: free() on a valid handle
\* calls _free with the handle's address and sets the address to 0; free() on
\* an invalid handle calls nothing, changes nothing and throws nothing.
C2_FreeAtMostOnce ==
    [][\A h \in Handles :
          /\ frees'[h] <= 1
          /\ (last'.h = h /\ last'.op = "free")
             => /\ last'.err = "none"
                /\ IF isValid(handles[h])
                   THEN /\ last'.freed = <<handles[h].ptr>>
                        /\ handles'[h].ptr = 0
                        /\ frees'[h] = frees[h] + 1
                   ELSE /\ last'.freed = <<>>
                        /\ handles' = handles /\ heap' = heap
                        /\ live' = live /\ frees' = frees]_vars

\* a second free() on a handle that had been freed did nothing
C2_Witness ==
    /\ last.op = "free" /\ last.h \in Handles
    /\ frees[last.h] = 1 /\ last.freed = <<>> /\ last.err = "none"

\* C3: on a valid handle of any class readAndFree() does what read() followed
\* by free() does: it returns what read() returns in that state, _free is
\* called once with the handle's address, and the handle is invalid afterwards.
C3_ReadAndFreeIsReadThenFree ==
    [][\A h \in Handles :
          (last'.h = h /\ last'.op = "readAndFree" /\ isValid(handles[h]))
          => /\ last'.err = "none"
             /\ last'.ret = read(handles[h], heap).ret
             /\ last'.freed = <<handles[h].ptr>>
             /\ handles'[h].ptr = 0]_vars

\* no handle was built over an address the caller supplied
AllAllocated == \A h \in Handles : handles[h].cls # "none" => handles[h].own

Distinct ==
    \A g, h \in Handles :
        (g # h /\ isValid(handles[g]) /\ isValid(handles[h])) => handles[g].ptr # handles[h].ptr

\* a valid handle whose address is no live block: the block was freed
Dangling == \E h \in Handles : isValid(handles[h]) /\ ~IsLive(live, handles[h].ptr)

\* C4 as stated: whatever factory calls (allocating, or over a supplied
\* address) and releases were made, no two valid handles hold the same address,
\* no address is freed twice and no valid handle refers to freed memory.
C4_ExclusiveAddresses == Distinct /\ ~badFree /\ ~Dangling

\* C4 for handles that allocate: as long as every handle was made by alloc or
\* from, no two valid handles hold the same address, _free is never called on
\* an address that is not live, and every valid handle's address is live.
C4_AllocatedExclusive == AllAllocated => (Distinct /\ ~badFree /\ ~Dangling)

\* two valid handles, both allocated, the first in a block that an earlier
\* failed from() did not take: the second allocation had to avoid the first
C4_Witness ==
    /\ AllAllocated
    /\ \A h \in Handles : isValid(handles[h])
    /\ last.op \in {"alloc", "from"} /\ last.h = 2

\* the bytes [addr, addr + Reserved(p)) of an allocation; none when _malloc failed
ReservedAt(addr, p) == IF addr = 0 THEN {} ELSE addr..(addr + Reserved(p) - 1)

ShapePointer == Pointer(shape.cls, 0, shape.type, shape.length, TRUE, 0)

\* C5: every store made by an operation of a handle that allocated its memory
\* (the factory's initialisation, write, add) is to a byte of [address,
\* address + reserved size), the reserved size being that of the class.
C5_StoresInsideReservation ==
    /\ (last.op \in {"alloc", "from"} /\ last.mal # <<>>)
       => last.W \subseteq ReservedAt(last.mal[1][2], ShapePointer)
    /\ (last.op \in {"write", "add"} /\ handles[last.h].own)
       => last.W \subseteq ReservedAt(handles[last.h].ptr, handles[last.h])

\* a write of a multi-byte text stored to every reserved byte of a StringPointer
C5_Witness ==
    /\ last.op = "write" /\ last.cls = "String" /\ handles[last.h].own
    /\ handles[last.h].length >= 3
    /\ lengthBytesUTF8(last.arg) > Len(last.arg)
    /\ last.W = ReservedAt(handles[last.h].ptr, handles[last.h])

\* v is a value of the type: an integer of its width in two's complement, or a
\* binary floating-point number of its precision and exponent range
Representable(type, v) ==
    CASE type \in {"i8", "i16", "i32"} ->
            (v \div Pow2(8 * C_TYPE_SIZES(type) - 2)) \in {-2, -1, 0, 1}
      [] type = "i64" ->
            \/ Len(v.mag) < 8
            \/ Len(v.mag) = 8 /\ v.mag[8] < 128
            \/ v.neg /\ v.mag = <<0, 0, 0, 0, 0, 0, 0, 128>>
      [] type = "float" ->
            \/ v.k = "zero"
            \/ /\ v.k = "norm" /\ v.exp \in -126..127
               /\ v.frac[4] % 32 = 0 /\ v.frac[5] = 0 /\ v.frac[6] = 0 /\ v.frac[7] = 0
      [] type = "double" ->
            v.k = "zero" \/ (v.k = "norm" /\ v.exp \in -1022..1023)

ElementAddrs(p, loc) ==
    (p.ptr + loc * C_TYPE_SIZES(p.type))..(p.ptr + (loc + 1) * C_TYPE_SIZES(p.type) - 1)

\* C6: on a valid ArrayPointer of length n, add(index, v) with index < 0 or
\* index >= n throws the Out-of-Bounds error and changes no heap byte; with
\* 0 <= index < n it returns and stores exactly the element at address +
\* index * size: only those bytes change, and they hold v.
C6_AddChecksIndex ==
    [][\A h \in Handles :
          (last'.h = h /\ last'.op = "add" /\ handles[h].cls = "Array" /\ isValid(handles[h]))
          => LET p == handles[h]
                 loc == last'.idx
             IN  IF loc < 0 \/ loc >= p.length
                 THEN last'.err = "OutOfBounds" /\ heap' = heap /\ last'.W = {}
                 ELSE /\ last'.err = "none"
                      /\ last'.W = ElementAddrs(p, loc)
                      /\ \A a \in Addrs \ ElementAddrs(p, loc) : heap'[a] = heap[a]
                      /\ Representable(p.type, last'.arg[1])
                         => ArrayPointer_read(p, heap').ret[loc + 1] = last'.arg[1]]_vars

\* add at the index one past the last element was rejected
C6_Witness ==
    /\ last.op = "add" /\ last.cls = "Array" /\ isValid(handles[last.h])
    /\ last.idx = handles[last.h].length /\ last.idx > 0
    /\ last.err = "OutOfBounds"

\* C7: on a valid ArrayPointer of length n, write(values) with more than n
\* values throws the Length-Mismatch error and stores nothing: the heap after
\* the call is the heap before it.
C7_WriteChecksLength ==
    [][\A h \in Handles :
          (/\ last'.h = h /\ last'.op = "write"
           /\ handles[h].cls = "Array" /\ isValid(handles[h])
           /\ Len(last'.arg) > handles[h].length)
          => last'.err = "LengthMismatch" /\ heap' = heap /\ last'.W = {}]_vars

\* a write of n + 1 values to an array of n > 0 elements was rejected
C7_Witness ==
    /\ last.op = "write" /\ last.cls = "Array" /\ isValid(handles[last.h])
    /\ handles[last.h].length > 0
    /\ Len(last.arg) = handles[last.h].length + 1
    /\ last.err = "LengthMismatch"

\* the read() that follows a write of last.arg gives n elements, the first
\* Len(last.arg) of them the values written
ReadsBackPrefix ==
    LET p == handles[last.h]
        r == ArrayPointer_read(p, heap)
    IN  /\ last.err = "none"
        /\ r.err = "none"
        /\ Len(r.ret) = p.length
        /\ \A i \in 1..Len(last.arg) : r.ret[i] = last.arg[i]

ArrayWritten ==
    /\ last.op = "write" /\ last.cls = "Array" /\ isValid(handles[last.h])
    /\ Len(last.arg) <= handles[last.h].length

\* C8 as stated: after a write of m <= n values, whatever they are, to a valid
\* ArrayPointer of length n, read() returns n elements of which the first m
\* are the written values in order.
C8_ReadReturnsWritten == ArrayWritten => ReadsBackPrefix

\* C8 for values of the element type: after a write of m <= n values that are
\* all representable in the type, read() returns n elements of which the
\* first m are the written values in order.
C8_ReadReturnsRepresentable ==
    (ArrayWritten /\ \A i \in 1..Len(last.arg) :
                        Representable(handles[last.h].type, last.arg[i]))
    => ReadsBackPrefix

\* a write of fewer values than the array has elements
C8_Witness ==
    /\ ArrayWritten /\ last.err = "none"
    /\ Len(last.arg) >= 1 /\ Len(last.arg) < handles[last.h].length

\* C9: for every number type and value v representable in it, read() after
\* from(type, v), and after a later write(v), returns v; an i64 value is
\* compared as an integer of any size.
C9_NumberRoundTrip ==
    (/\ last.op \in {"from", "write"} /\ last.cls = "Number"
     /\ isValid(handles[last.h])
     /\ Representable(handles[last.h].type, last.arg[1]))
    => /\ last.err = "none"
       /\ NumberPointer_read(handles[last.h], heap).err = "none"
       /\ NumberPointer_read(handles[last.h], heap).ret = last.arg

\* 2^53 + 1 was written to an i64 pointer that held another value
C9_Witness ==
    /\ last.op = "write" /\ last.cls = "Number" /\ shape.type = "i64"
    /\ last.err = "none" /\ last.arg = <<Big53>>
    /\ last.W # {} /\ frees[last.h] = 0

\* C10: on a valid StringPointer, write(text) throws the Buffer-Overflow error
\* whenever the UTF-8 length of the text plus the terminator exceeds the
\* reserved length, and the heap after the rejected call is the heap before it.
C10_OverflowRejected ==
    [][\A h \in Handles :
          (/\ last'.h = h /\ last'.op = "write"
           /\ handles[h].cls = "String" /\ isValid(handles[h])
           /\ lengthBytesUTF8(last'.arg) + 1 > handles[h].length)
          => last'.err = "BufferOverflow" /\ heap' = heap]_vars

\* a text was stored by write or from without an error, and the pointer is valid
TextStored ==
    /\ last.op \in {"write", "from"} /\ last.cls = "String"
    /\ last.err = "none" /\ isValid(handles[last.h])

\* C11: after write(s) or from(c, s) on a StringPointer returned without an
\* error, read() returns exactly s, whatever text was stored before.
C11_TextRoundTrip ==
    TextStored
    => /\ StringPointer_read(handles[last.h], heap).err = "none"
       /\ StringPointer_read(handles[last.h], heap).ret = last.arg

\* C12: CharPointer.from throws the Validation error for an input of length 0
\* or of length 2 or more; for a single character with code in 0..255, read()
\* after from(c) and after write(c) returns c.
C12_CharRoundTrip ==
    (last.cls = "Char" /\ last.op \in {"from", "write"})
    => /\ (last.op = "from" /\ Len(last.arg) # 1) => last.err = "Validation"
       /\ (/\ Len(last.arg) = 1 /\ last.arg[1] \in 0..255
           /\ isValid(handles[last.h]))
          => /\ last.err = "none"
             /\ CharPointer_read(handles[last.h], heap).err = "none"
             /\ CharPointer_read(handles[last.h], heap).ret = last.arg

\* C13: read() on a valid BoolPointer returns false exactly when the byte at
\* its address is 0, and true for every other byte (1, 2, 255), whether
\* write() or guest code stored the byte.
C13_FlagFalseIffZero ==
    (last.op = "read" /\ last.cls = "Bool" /\ isValid(handles[last.h]))
    => /\ last.err = "none"
       /\ last.ret = <<heap[handles[last.h].ptr] # 0>>

\* a BoolPointer whose byte guest code had set to 255 was read as true
C13_Witness ==
    /\ last.op = "read" /\ last.cls = "Bool" /\ isValid(handles[last.h])
    /\ heap[handles[last.h].ptr] = 255 /\ last.ret = <<TRUE>>

\* C14: BoolPointer.alloc() that returns a valid pointer is followed by read() = false, and
\* CharPointer.alloc() by read() = the null character, whatever the heap held
\* at the address _malloc returned (also a block that another pointer had
\* written to and freed).
C14_AllocInitialised ==
    (/\ last.op = "alloc" /\ last.cls \in {"Bool", "Char"} /\ last.err = "none"
     /\ isValid(handles[last.h]))
    => /\ read(handles[last.h], heap).err = "none"
       /\ read(handles[last.h], heap).ret = IF last.cls = "Bool" THEN <<FALSE>> ELSE <<0>>

\* the second BoolPointer was allocated at the address of the first one's
\* freed block
C14_Witness ==
    /\ last.op = "alloc" /\ last.cls = "Bool" /\ last.err = "none" /\ last.h = 2
    /\ frees[1] = 1 /\ ~isValid(handles[1])
    /\ handles[2].ptr = MallocAlign /\ last.W = {MallocAlign}

\* C15: for both booleans b, read() after BoolPointer.from(b), and after
\* write(b) on a valid BoolPointer whatever it held, returns b.
C15_FlagRoundTrip ==
    (/\ last.op \in {"from", "write"} /\ last.cls = "Bool"
     /\ isValid(handles[last.h]))
    => /\ last.err = "none"
       /\ BoolPointer_read(handles[last.h], heap).err = "none"
       /\ BoolPointer_read(handles[last.h], heap).ret = last.arg

\* false was written to a valid BoolPointer
C15_Witness ==
    /\ last.op = "write" /\ last.cls = "Bool" /\ isValid(handles[last.h])
    /\ last.arg = <<FALSE>> /\ last.W = {handles[last.h].ptr}
    /\ heap[handles[last.h].ptr] = C_FALSE

\* what read() returns once guest code has stored v at element (byte) idx of
\* the memory of p: the element, the flag or the character stored; for a text
\* with non-zero ASCII bytes before idx, those characters, ended there by a
\* terminator or followed by the letter stored
Mutated(p, hp, idx, v, ret) ==
    CASE p.cls \in {"Number", "Array"} -> ret[idx + 1] = v
      [] p.cls = "Bool" -> ret = <<v # 0>>
      [] p.cls = "Char" -> ret = <<v>>
      [] p.cls = "String" ->
            (\A j \in 0..(idx - 1) : hp[p.ptr + j] \in 1..127)
            => /\ Len(ret) >= idx
               /\ \A j \in 0..(idx - 1) : ret[j + 1] = hp[p.ptr + j]
               /\ IF v = 0 THEN Len(ret) = idx ELSE Len(ret) > idx /\ ret[idx + 1] = v

\* C16: a pointer object caches nothing: read() and readAndFree() called after
\* guest code stored a value in place return without an error, and return the
\* value guest code stored.
C16_ReadsGuestStores ==
    [][\A h \in Handles :
          (/\ last.op = "guest" /\ last.h = h
           /\ last'.h = h /\ last'.op \in {"read", "readAndFree"})
          => /\ last'.err = "none"
             /\ Mutated(handles[h], heap, last.idx, last.arg[1], last'.ret)]_vars

\* C17: StringPointer.alloc(c) asks _malloc for exactly c bytes and from(c, s)
\* for c + 1; from(c, s) returns without an error for every s whose UTF-8
\* length is at most c, and write(s) on an allocated StringPointer of length c
\* returns without an error only when the UTF-8 length of s plus 1 is at most c.
C17_TextCapacity ==
    last.cls = "String"
    => /\ last.op = "alloc" => last.mal[1][1] = shape.length
       /\ last.op = "from"
          => LET c == shape.length - 1
             IN  /\ last.mal[1][1] = c + 1
                 /\ (last.mal[1][2] # 0 /\ lengthBytesUTF8(last.arg) <= c)
                    => last.err = "none"
       /\ (last.op = "write" /\ handles[last.h].own /\ last.err = "none")
          => lengthBytesUTF8(last.arg) + 1 <= handles[last.h].length

\* C18: charToC throws the Validation error for every string that is not one
\* code unit long (empty, two characters, a surrogate pair), the Range error
\* for every one-unit string whose code is above 255, and otherwise returns
\* the code, which is in 0..255.
C18_CharToByte ==
    last.op = "charToC"
    => IF Len(last.arg) # 1 THEN last.err = "Validation" /\ last.ret = NoValue
       ELSE IF last.arg[1] > 255 THEN last.err = "Range" /\ last.ret = NoValue
       ELSE last.err = "none" /\ last.ret = last.arg /\ last.ret[1] \in 0..255

\* charToC rejected a surrogate pair
C18_Witness ==
    last.op = "charToC" /\ last.arg = <<55357, 56846>> /\ last.err = "Validation"

\* the number is one of the integers 0..255
IsByteCode(code) == \E n \in 0..255 : code[2] # 0 /\ code[1] = n * code[2]

\* C19: charFromC throws the Range error unless the code is an integer in
\* 0..255 (so for -1, 256 and numbers that are not integers), and for every
\* integer n in 0..255 it returns a one-character string c with charToC(c) = n.
C19_ByteToChar ==
    last.op = "charFromC"
    => IF IsByteCode(last.arg)
       THEN /\ last.err = "none" /\ Len(last.ret) = 1
            /\ charToC(last.ret).err = "none"
            /\ charToC(last.ret).val * last.arg[2] = last.arg[1]
       ELSE last.err = "Range" /\ last.ret = NoValue

\* charFromC rejected 3.14
C19_Witness ==
    last.op = "charFromC" /\ last.arg = JSNumber(157, 50) /\ last.err = "Range"

\* the byte sizes of the six number types
SizeTable == [i8 |-> 1, i16 |-> 2, i32 |-> 4, i64 |-> 8, float |-> 4, double |-> 8]

\* C20: getTypeSize returns 1, 2, 4, 8, 4, 8 for i8, i16, i32, i64, float,
\* double and throws the Unsupported-Type error for every other string;
\* validateNumberType returns true for those six and throws for every other.
C20_TypeSizes ==
    last.op \in {"validateNumberType", "getTypeSize"}
    => IF last.arg[1] \in DOMAIN SizeTable
       THEN /\ last.err = "none"
            /\ IF last.op = "getTypeSize" THEN last.ret = <<SizeTable[last.arg[1]]>>
               ELSE last.ret = <<TRUE>>
       ELSE last.err = "UnsupportedType"

\* C21: creating a NumberPointer or an ArrayPointer with a type that is not
\* one of the six keys of C_TYPE_SIZES throws a validation error and calls no
\* _malloc; no pointer object with such a type exists.
C21_UnknownTypeRejected ==
    /\ (/\ last.op \in {"alloc", "from", "new"} /\ last.cls \in {"Number", "Array"}
        /\ shape.type \notin NumberTypes)
       => last.err = "Validation" /\ last.mal = <<>>
    /\ \A h \in Handles :
          handles[h].cls \in {"Number", "Array"} => handles[h].type \in NumberTypes

\* C22: the Length-mismatch error of ArrayPointer.write (and from) carries the
\* declared length and the length of the input, and the Out-of-bounds error of
\* add carries the index given and the declared length.
C22_ErrorsCarryValues ==
    last.cls = "Array"
    => /\ last.err = "LengthMismatch"
          => /\ last.op \in {"write", "from"}
             /\ last.msg = <<shape.length, Len(last.arg)>>
       /\ last.err = "OutOfBounds"
          => /\ last.op = "add"
             /\ last.msg = <<last.idx, shape.length>>

\* add(2, v) on an i8 array of length 2 reported index 2 and length 2
C22_Witness ==
    /\ last.op = "add" /\ last.cls = "Array" /\ handles[last.h].type = "i8"
    /\ handles[last.h].length = 2 /\ handles[last.h].own /\ last.idx = 2
    /\ last.err = "OutOfBounds" /\ last.msg = <<2, 2>>

\* C23: the address of a pointer object stays what its construction made it
\* until free() or readAndFree() releases it; from the release on the address
\* is 0 and isValid is false after every later call; isValid is true exactly
\* when the address is not 0.
C23_AddressLifecycle ==
    [][\A h \in Handles :
          /\ isValid(handles'[h]) <=> handles'[h].ptr # 0
          /\ frees'[h] > 0 => handles'[h].ptr = 0 /\ ~isValid(handles'[h])
          /\ handles[h].cls # "none"
             => /\ \/ handles'[h].ptr = handles[h].ptr
                   \/ /\ handles'[h].ptr = 0
                      /\ last'.h = h /\ last'.op \in {"free", "readAndFree"}
                      /\ last'.freed = <<handles[h].ptr>>
                /\ ~isValid(handles[h]) => ~isValid(handles'[h])]_vars

\* a write on a released pointer found it at address 0
C23_Witness ==
    /\ last.op = "write" /\ last.h \in Handles
    /\ frees[last.h] = 1 /\ handles[last.h].ptr = 0 /\ ~isValid(handles[last.h])
    /\ last.err = "InvalidPointer"

\* C24: no call changes the class or type of a pointer object, the length of
\* an ArrayPointer or the length of a StringPointer: read, write, add, free
\* and readAndFree leave them as the construction set them.
C24_ShapeImmutable ==
    [][\A h \in Handles :
          handles[h].cls # "none"
          => /\ handles'[h].cls = handles[h].cls
             /\ handles'[h].type = handles[h].type
             /\ handles'[h].length = handles[h].length
             /\ handles[h].cls = shape.cls /\ handles[h].type = shape.type
             /\ handles[h].length = shape.length]_vars

\* an ArrayPointer of length 2 was freed and has its type and length still
C24_Witness ==
    /\ last.op = "free" /\ last.cls = "Array" /\ frees[last.h] = 1
    /\ handles[last.h].cls = "Array" /\ handles[last.h].length = 2
    /\ handles[last.h].type = "i16"

C26_ValidityFirst ==
    [][\A h \in Handles :
          (/\ handles[h].cls # "none" /\ ~isValid(handles[h])
           /\ last'.h = h /\ last'.op \in {"write", "add"})
          => /\ last'.err = "InvalidPointer"
             /\ last'.err \notin {"OutOfBounds", "LengthMismatch", "BufferOverflow",
                                 "Validation", "Range"}]_vars

\* an array one longer than the declared length was written to a released
\* ArrayPointer
C26_Witness ==
    /\ last.op = "write" /\ last.cls = "Array" /\ frees[last.h] = 1
    /\ ~isValid(handles[last.h])
    /\ Len(last.arg) > handles[last.h].length
    /\ last.err = "InvalidPointer"

\* the call changed no heap byte outside the elements from..to (0-based) of p
\* and no element of p outside them
OnlyElements(p, from_, to, hp, hp2) ==
    LET size == C_TYPE_SIZES(p.type)
        stored == (p.ptr + from_ * size)..(p.ptr + (to + 1) * size - 1)
    IN  /\ \A a \in Addrs \ stored : hp2[a] = hp[a]
        /\ \A i \in 0..(p.length - 1) :
              (i < from_ \/ i > to)
              => ArrayPointer_read(p, hp2).ret[i + 1] = ArrayPointer_read(p, hp).ret[i + 1]

\* C27: on a valid ArrayPointer of length n, a write of m < n values that
\* returns changes only the elements 0..m-1, the elements m..n-1 hold what
\* they held before; an add(i, v) that returns changes only element i.
C27_TailUntouched ==
    [][\A h \in Handles :
          (/\ last'.h = h /\ handles[h].cls = "Array" /\ isValid(handles[h])
           /\ last'.err = "none")
          => /\ last'.op = "write"
                => OnlyElements(handles[h], 0, Len(last'.arg) - 1, heap, heap')
             /\ last'.op = "add"
                => OnlyElements(handles[h], last'.idx, last'.idx, heap, heap')]_vars

\* one value was written to an ArrayPointer of length 2 and the second
\* element still holds the value an earlier write gave it
C27_Witness ==
    /\ last.op = "write" /\ last.cls = "Array" /\ isValid(handles[last.h])
    /\ last.err = "none" /\ handles[last.h].length = 2 /\ handles[last.h].type = "i16"
    /\ last.arg = <<FitSeq("i16")[2]>>
    /\ ArrayPointer_read(handles[last.h], heap).ret = <<FitSeq("i16")[2], FitSeq("i16")[2]>>

\* the UTF-8 bytes of a text followed by the terminating 0
Encoded(str) == Append(UTF8Upto(str, lengthBytesUTF8(str)), 0)

\* C28: after every write(s) or from(c, s) on a StringPointer that returned
\* without an error, the UTF-8 bytes of s followed by the terminating 0 are in
\* the heap at the pointer's address and lie inside the reserved bytes, and a
\* read() that follows loads no byte outside the reserved bytes.
C28_TextInsideReservation ==
    TextStored
    => LET p == handles[last.h]
       IN  /\ Len(Encoded(last.arg)) <= Reserved(p)
           /\ \A i \in 1..Len(Encoded(last.arg)) :
                 ByteAt(heap, p.ptr + i - 1) = Encoded(last.arg)[i]
           /\ StringPointer_read(p, heap).R \subseteq ReservedAt(p.ptr, p)

\* C29: a constructor call of any class over a non-zero address the caller
\* supplies calls _malloc not at all and stores no heap byte (BoolPointer and
\* CharPointer skip their default write); the object is valid at that address,
\* and its free() hands exactly that address to _free.
C29_WrapsSuppliedAddress ==
    [][\A h \in Handles :
          /\ (last'.op = "new" /\ last'.h = h /\ last'.idx # 0)
             => /\ last'.err = "none" /\ last'.mal = <<>>
                /\ last'.W = {} /\ heap' = heap
                /\ isValid(handles'[h]) /\ handles'[h].ptr = last'.idx
          /\ (/\ handles[h].cls # "none" /\ ~handles[h].own /\ isValid(handles[h])
              /\ last'.op = "free" /\ last'.h = h)
             => last'.freed = <<handles[h].ptr>> /\ ~isValid(handles'[h])]_vars

\* a BoolPointer was constructed over the address of a byte that holds 1, and
\* the byte still holds 1
C29_Witness ==
    /\ last.op = "new" /\ last.cls = "Bool" /\ last.idx # 0
    /\ isValid(handles[last.h]) /\ handles[last.h].ptr = last.idx
    /\ heap[last.idx] = 1

\* C30: whenever alloc or from of any class returns an object instead of
\* throwing, the object is valid (its address is not 0); when _malloc returns 0
\* the factory throws.
C30_FactoryReturnsValid ==
    (last.op \in {"alloc", "from"} /\ last.err = "none")
    => /\ isValid(handles[last.h])
       /\ last.mal[1][2] # 0

\* C31: when from() of any class throws, no block it got from _malloc stays
\* allocated: the live blocks after the failed call are the live blocks before it.
C31_FailedFromLeavesNoBlock ==
    [][(last'.op = "from" /\ last'.err # "none") => live' = live]_vars

\* the errors of a rejected argument
ArgumentErrors == {"OutOfBounds", "LengthMismatch", "BufferOverflow", "Validation"}

\* C32: a write or add that throws the Out-of-bounds, Length-mismatch,
\* Buffer-Overflow or Validation error leaves the pointer valid at the same
\* address and the heap as it was; a read() that follows returns without an
\* error the value stored before the failed call, and a free() that follows
\* hands the address to _free once.
C32_FailedStoreKeepsHandle ==
    [][\A h \in Handles :
          (last'.h = h /\ last'.op \in {"write", "add"} /\ last'.err \in ArgumentErrors)
          => /\ isValid(handles[h]) /\ handles'[h] = handles[h]
             /\ heap' = heap
             /\ read(handles'[h], heap').err = "none"
             /\ read(handles'[h], heap').ret = read(handles[h], heap).ret
             /\ BasePointer_free(handles'[h]).freed = <<handles[h].ptr>>
             /\ BasePointer_free(BasePointer_free(handles'[h]).p).freed = <<>>]_vars

\* C33: _free is never called with the address 0 and only with the address the
\* object it is called through holds at that moment; free() and readAndFree()
\* on an object whose address is 0 call neither _free nor any other primitive,
\* and no other method calls _free.
C33_FreeOnlyHeldAddress ==
    [][/\ \A i \in 1..Len(last'.freed) :
             /\ last'.freed[i] # 0
             /\ last'.h \in Handles /\ last'.freed[i] = handles[last'.h].ptr
       /\ last'.op \notin {"free", "readAndFree"} => last'.freed = <<>>
       /\ \A h \in Handles :
             (last'.h = h /\ last'.op \in {"free", "readAndFree"} /\ handles[h].ptr = 0)
             => /\ last'.freed = <<>> /\ last'.mal = <<>>
                /\ last'.W = {} /\ last'.R = {}
                /\ heap' = heap /\ live' = live /\ handles' = handles]_vars

\* readAndFree() was called on an object that free() had released before, and
\* _free was not called again
C33_Witness ==
    /\ last.op = "readAndFree" /\ last.h \in Handles
    /\ handles[last.h].cls # "none" /\ handles[last.h].ptr = 0
    /\ frees[last.h] = 1 /\ last.freed = <<>>

\* the objects in slots g and h stand for disjoint bytes
DisjointAllocations(g, h) ==
    ReservedAt(handles[g].ptr, handles[g]) \cap ReservedAt(handles[h].ptr, handles[h]) = {}

\* C34: for two objects over disjoint allocations, a write, add, read, free or
\* readAndFree on one of them, whether it returns or throws, leaves the other
\* object (its address, validity, type and length) and every byte of the
\* other object's reserved range unchanged.
C34_OtherHandleUntouched ==
    [][\A h \in Handles, g \in Handles :
          (/\ g # h /\ handles[g].cls # "none" /\ handles[h].cls # "none"
           /\ DisjointAllocations(g, h)
           /\ last'.h = h /\ last'.op \in {"write", "add", "read", "free", "readAndFree"})
          => /\ handles'[g] = handles[g]
             /\ isValid(handles'[g]) = isValid(handles[g])
             /\ \A a \in ReservedAt(handles[g].ptr, handles[g]) : heap'[a] = heap[a]]_vars

\* add() was refused the index at which the block of the second of two valid
\* 64-bit ArrayPointer objects begins, and the second holds a stored value
C34_Witness ==
    /\ last.op = "add" /\ last.cls = "Array" /\ last.err = "OutOfBounds" /\ last.h = 1
    /\ isValid(handles[1]) /\ isValid(handles[2])
    /\ handles[1].ptr + last.idx * C_TYPE_SIZES(handles[1].type) = handles[2].ptr
    /\ ArrayPointer_read(handles[2], heap).ret = <<FitSeq("i64")[1]>>

\* C35: read() on a valid object of any class stores no heap byte and changes
\* no object (address, validity, class, type, length), so a second read() that
\* follows it directly has the outcome of the first.
C35_ReadChangesNothing ==
    [][\A h \in Handles :
          (last'.op = "read" /\ last'.h = h /\ isValid(handles[h]))
          => /\ heap' = heap /\ last'.W = {}
             /\ handles' = handles /\ live' = live
             /\ read(handles'[h], heap') = read(handles[h], heap)
             /\ (last.op = "read" /\ last.h = h)
                => last'.ret = last.ret /\ last'.err = last.err]_vars

\* read() of a BoolPointer returned true for a byte in which guest code had
\* stored 2, and the byte still holds 2
C35_Witness ==
    /\ last.op = "read" /\ last.cls = "Bool" /\ last.err = "none"
    /\ isValid(handles[last.h]) /\ last.ret = <<TRUE>>
    /\ heap[handles[last.h].ptr] = 2

====
